---------------------------- MODULE Spec2Model ----------------------------
(***************************************************************************)
(* A model of solsim: the celestial-body classes of                        *)
(* solsim/solar_system_objects.py and the force law of solsim/gravity.py.  *)
(*                                                                         *)
(* Numbers are exact rationals [n, d] (reduced, d > 0); rounding of IEEE   *)
(* doubles is not modelled.  A Python value carries its type in field t.   *)
(* A behaviour is one call: Init draws the arguments of the call, one      *)
(* action per class constructor / function applies the code to them, and   *)
(* Repr asks a constructed body for its summary.                           *)
(***************************************************************************)
EXTENDS Integers, Sequences, FiniteSets, TLC

VARIABLES pc, args, cls, self, raised, ret, sampled

vars == <<pc, args, cls, self, raised, ret, sampled>>

\* ------------------------------------------------------------ bounds
\* np.random.rand draws k / RandSteps, k in 0 .. RandSteps - 1
RandSteps == 3
\* longest numpy array handed to universal_gravity
MaxLen == 2

\* ------------------------------------------------------------ rationals
Abs(x) == IF x < 0 THEN -x ELSE x

RECURSIVE GCD(_, _)
GCD(a, b) == IF b = 0 THEN a ELSE GCD(b, a % b)

Q(n, d) ==
    LET g == GCD(Abs(n), Abs(d))
        s == IF d < 0 THEN -1 ELSE 1
    IN  [n |-> (s * n) \div g, d |-> (s * d) \div g]

QAdd(a, b) == Q(a.n * b.d + b.n * a.d, a.d * b.d)
QSub(a, b) == Q(a.n * b.d - b.n * a.d, a.d * b.d)
QMul(a, b) == Q(a.n * b.n, a.d * b.d)
QLeq(a, b) == a.n * b.d <= b.n * a.d
QLess(a, b) == a.n * b.d < b.n * a.d
QStr(a) == ToString(a.n) \o "/" \o ToString(a.d)

\* ------------------------------------------------------------ Python values
None == [t |-> "NoneType"]
Omitted == [t |-> "omitted"]            \* an argument the caller left out
Unset == [t |-> "unset"]                \* an attribute not assigned yet
Float(q) == [t |-> "float", x |-> q]
Str(s) == [t |-> "str", s |-> s]
List(v) == [t |-> "list", v |-> v]
NdArray(ndim, data) == [t |-> "ndarray", ndim |-> ndim, data |-> data]

NoExc == [type |-> "None", field |-> "", got |-> ""]
Exc(type, field, got) == [type |-> type, field |-> field, got |-> got]

\* type(x)
type_(x) == x.t

\* np.asarray(x): a scalar becomes a 0-d array of one element, a list a 1-d
\* array of its elements, an array is returned as it is
np_asarray(x) ==
    CASE x.t = "ndarray" -> x
      [] x.t = "list" -> NdArray(1, x.v)
      [] OTHER -> NdArray(0, <<x.x>>)

\* ndarray.size
size(a) == Len(a.data)

\* np.zeros(n)
np_zeros(n) == NdArray(1, [i \in 1 .. n |-> Q(0, 1)])

\* np.random.rand(n) with the draws k[1..n]: each value k[i]/RandSteps in [0, 1)
np_random_rand(n, k) == NdArray(1, [i \in 1 .. n |-> Q(k[i], RandSteps)])

\* c * a + b, element-wise on an array a
ScaleShift(c, a, b) ==
    NdArray(a.ndim, [i \in 1 .. Len(a.data) |-> QAdd(QMul(c, a.data[i]), b)])

\* ------------------------------------------------------------ module constants
MINIMUM_SIZE == Q(3, 10)
MAXIMUM_SIZE == Q(50, 1)
MINIMUM_VELOCITY == Q(20, 1)
MAXIMUM_VELOCITY == Q(50, 1)

\* ------------------------------------------------------------ classes
Unbuilt == [mass |-> Unset, position |-> Unset, velocity |-> Unset, name |-> Unset]

Outcome(obj, exc, smp) == [self |-> obj, raised |-> exc, sampled |-> smp]

\* mutant: the offset of the default position is MAXIMUM_SIZE
DefaultPosition_m(k) ==
    ScaleShift(QSub(MAXIMUM_SIZE, MINIMUM_SIZE), np_random_rand(2, k), MAXIMUM_SIZE)

\* the default of position: (MAXIMUM_SIZE - MINIMUM_SIZE) * rand(2) + MINIMUM_SIZE
DefaultPosition(k) ==
    ScaleShift(QSub(MAXIMUM_SIZE, MINIMUM_SIZE), np_random_rand(2, k), MINIMUM_SIZE)

\* the default of velocity
DefaultVelocity(k) ==
    ScaleShift(QSub(MAXIMUM_VELOCITY, MINIMUM_VELOCITY), np_random_rand(2, k),
               MINIMUM_VELOCITY)

\* mutant: the size test off by one, `size < 1`
TooSmall_m(a) == size(a) < 1

\* the test `<array>.size < 2` that guards both raises
TooSmall(a) == size(a) < 2

\* mutant: every attribute is assigned before the vectors are tested
SolarSystemObject_init_m(mass, position, velocity, name, kp, kv) ==
    LET s == [mass |-> mass,
              position |-> IF position # None THEN np_asarray(position)
                           ELSE DefaultPosition(kp),
              velocity |-> IF velocity # None THEN np_asarray(velocity)
                           ELSE DefaultVelocity(kv),
              name |-> name]
        smp == (IF position # None THEN {} ELSE {"position"})
                   \cup (IF velocity # None THEN {} ELSE {"velocity"})
    IN  IF position # None /\ size(s.position) < 2
        THEN Outcome(s, Exc("TypeError", "position", type_(position)), smp)
        ELSE IF velocity # None /\ size(s.velocity) < 2
        THEN Outcome(s, Exc("TypeError", "velocity", type_(velocity)), smp)
        ELSE Outcome(s, NoExc, smp)

\* SolarSystemObject.__init__(self, mass, position, velocity, name); kp and kv
\* are the draws of the random source, used only on the default paths.  The
\* outcome holds the attributes assigned when __init__ returned or raised.
SolarSystemObject_init(mass, position, velocity, name, kp, kv) ==
    LET s1 == [Unbuilt EXCEPT !.mass = mass]
        s2 == [s1 EXCEPT !.position =
                    IF position # None THEN np_asarray(position)
                    ELSE DefaultPosition(kp)]
        smp2 == IF position # None THEN {} ELSE {"position"}
        s3 == [s2 EXCEPT !.velocity =
                    IF velocity # None THEN np_asarray(velocity)
                    ELSE DefaultVelocity(kv)]
        smp3 == IF velocity # None THEN smp2 ELSE smp2 \cup {"velocity"}
        s4 == [s3 EXCEPT !.name = name]
    IN  IF position # None /\ TooSmall(s2.position)
        THEN Outcome(s2, Exc("TypeError", "position", type_(position)), smp2)
        ELSE IF velocity # None /\ TooSmall(s3.velocity)
        THEN Outcome(s3, Exc("TypeError", "velocity", type_(velocity)), smp3)
        ELSE Outcome(s4, NoExc, smp3)

\* a parameter's default value
Default(arg, dflt) == IF arg = Omitted THEN dflt ELSE arg

\* SolarSystemObject(mass, position=None, velocity=None, name="Object")
SolarSystemObject_new(a, kp, kv) ==
    SolarSystemObject_init(a.mass, a.position, a.velocity,
                           Default(a.name, Str("Object")), kp, kv)

\* mutant: Star leaves position and velocity to the base class defaults
Star_init_m(mass, name, kp, kv) ==
    SolarSystemObject_init(mass, None, None, name, kp, kv)

\* Star.__init__(self, mass, name="Star"): the base __init__ with zero vectors
Star_init(mass, name, kp, kv) ==
    SolarSystemObject_init(mass, np_zeros(2), np_zeros(2), name, kp, kv)

\* Star(...): the signature has no position and no velocity parameter, and a
\* call that passes one is rejected when the arguments are bound, before
\* __init__ runs
Star_new(a, kp, kv) ==
    IF a.position # None \/ a.velocity # None
    THEN Outcome(Unbuilt, Exc("TypeError", "signature", ""), {})
    ELSE Star_init(a.mass, Default(a.name, Str("Star")), kp, kv)

\* Planet defines __index__, not __init__: construction runs the inherited
\* SolarSystemObject.__init__ with its defaults.  GasPlanet, TerrestrialPlanet
\* and DwarfPlanet inherit the same constructor.
Planet_new(a, kp, kv) == SolarSystemObject_new(a, kp, kv)

\* Asteroid.__init__(self, mass, position=None, velocity=None, name="Asteroid")
Asteroid_new(a, kp, kv) ==
    SolarSystemObject_init(a.mass, a.position, a.velocity,
                           Default(a.name, Str("Asteroid")), kp, kv)

\* Comet.__init__(self, mass, position=None, velocity=None, name="Comet")
Comet_new(a, kp, kv) ==
    SolarSystemObject_init(a.mass, a.position, a.velocity,
                           Default(a.name, Str("Comet")), kp, kv)

\* ------------------------------------------------------------ __repr__
\* const.M_sun.value, const.M_jup.value, const.M_earth.value (astropy) and
\* the local M_pluto = 1.309e22 are kept as named units: mass / unit is the
\* pair of the mass and the unit's name
Ratio(mass, unit) == [t |-> "ratio", x |-> mass.x, unit |-> unit]

RECURSIVE JoinQ(_)
JoinQ(data) ==
    IF data = <<>> THEN ""
    ELSE IF Len(data) = 1 THEN QStr(data[1])
    ELSE QStr(data[1]) \o " " \o JoinQ(Tail(data))

\* str(x), as str.format renders an argument
str(x) ==
    CASE x.t = "str" -> x.s
      [] x.t = "float" -> QStr(x.x)
      [] x.t = "ratio" -> QStr(x.x) \o "/" \o x.unit
      [] x.t = "ndarray" ->
            IF x.ndim = 0 THEN QStr(x.data[1]) ELSE "[" \o JoinQ(x.data) \o "]"
      [] OTHER -> x.t

Holes(tpl) == {i \in 1 .. Len(tpl) : tpl[i] = "{}"}

\* tpl.format(*a): the i-th "{}" of the template takes a[i]; a replacement
\* field with no argument left raises IndexError; spare arguments are ignored.
\* The template and the result are the sequences of their pieces.
str_format(tpl, a) ==
    IF Cardinality(Holes(tpl)) > Len(a)
    THEN [raised |-> Exc("IndexError", "", ""), val |-> None]
    ELSE [raised |-> NoExc,
          val |-> [t |-> "str",
                   parts |-> [i \in 1 .. Len(tpl) |->
                       IF tpl[i] = "{}"
                       THEN str(a[Cardinality({j \in Holes(tpl) : j <= i})])
                       ELSE tpl[i]]]]

\* "{}: Mass = {} <unit>, position = ({}, {}) AU, velocity = ({}, {}) km/s"
BodyTemplate(unit) ==
    <<"{}", ": Mass = ", "{}", " " \o unit \o ", position = (", "{}", ", ", "{}",
      ") AU, velocity = (", "{}", ", ", "{}", ") km/s">>

\* "{}: Mass = {} M_sun"
StarTemplate == <<"{}", ": Mass = ", "{}", " M_sun">>

\* SolarSystemObject.__repr__, and the identical Planet, Asteroid and Comet ones
SolarSystemObject_repr(o) ==
    str_format(BodyTemplate("kg"), <<o.name, o.mass, o.position, o.velocity>>)

Star_repr(o) == str_format(StarTemplate, <<o.name, Ratio(o.mass, "M_sun")>>)

GasPlanet_repr(o) ==
    str_format(BodyTemplate("M_jup"),
               <<o.name, Ratio(o.mass, "M_jup"), o.position, o.velocity>>)

TerrestrialPlanet_repr(o) ==
    str_format(BodyTemplate("M_earth"),
               <<o.name, Ratio(o.mass, "M_earth"), o.position, o.velocity>>)

DwarfPlanet_repr(o) ==
    str_format(BodyTemplate("M_pluto"),
               <<o.name, Ratio(o.mass, "M_pluto"), o.position, o.velocity>>)

\* repr(o) for an object of class c: the __repr__ the class resolves to
repr(c, o) ==
    CASE c = "Star" -> Star_repr(o)
      [] c = "GasPlanet" -> GasPlanet_repr(o)
      [] c = "TerrestrialPlanet" -> TerrestrialPlanet_repr(o)
      [] c = "DwarfPlanet" -> DwarfPlanet_repr(o)
      [] OTHER -> SolarSystemObject_repr(o)

\* ------------------------------------------------------------ gravity
\* A number of gravity.py: a finite value q * G0^g, with G0 the default
\* gravitational constant c.G.value (astropy) kept as a positive symbol, or
\* one of the non-finite doubles inf, -inf, nan.  Zero is Fin(0, 0).
Fin(q, g) == [k |-> "fin", q |-> q, g |-> IF q.n = 0 THEN 0 ELSE g]
Inf == [k |-> "inf", q |-> Q(0, 1), g |-> 0]
NegInf == [k |-> "-inf", q |-> Q(0, 1), g |-> 0]
NaN == [k |-> "nan", q |-> Q(0, 1), g |-> 0]

\* c.G.value, the default of parameter G
c_G_value == Fin(Q(1, 1), 1)

IsZero(a) == a.k = "fin" /\ a.q.n = 0

\* a * b on finite doubles
Mul(a, b) == Fin(QMul(a.q, b.q), a.g + b.g)

\* a / b on finite doubles, b non-zero
Quot(a, b) == Fin(Q(a.q.n * b.q.d, a.q.d * b.q.n), a.g - b.g)

Ok(v) == [raised |-> NoExc, val |-> v]
Raise(ty) == [raised |-> Exc(ty, "", ""), val |-> None]

\* mutant: Python scalars divide as IEEE doubles do, x / 0 = inf
py_truediv_m(a, b) ==
    IF IsZero(b)
    THEN Ok(IF a.q.n > 0 THEN Inf ELSE IF a.q.n < 0 THEN NegInf ELSE NaN)
    ELSE Ok(Quot(a, b))

\* float.__truediv__: division of Python scalars raises on a zero divisor
py_truediv(a, b) ==
    IF IsZero(b) THEN Raise("ZeroDivisionError") ELSE Ok(Quot(a, b))

\* numpy's true_divide on one element: x / 0 is inf, -inf or nan and does not
\* raise (the default error state warns)
np_true_divide(a, b) ==
    IF IsZero(b)
    THEN Ok(IF a.q.n > 0 THEN Inf ELSE IF a.q.n < 0 THEN NegInf ELSE NaN)
    ELSE Ok(Quot(a, b))

IsArray(x) == x.t = "ndarray"
Elem(x, i) == IF IsArray(x) THEN x.data[i] ELSE x.x
Width(x, y) == IF IsArray(x) THEN Len(x.data) ELSE Len(y.data)

\* x * y: Python scalars multiply to a scalar, an array operand makes the
\* product an array (the scalar is broadcast)
times(x, y) ==
    IF IsArray(x) \/ IsArray(y)
    THEN NdArray(1, [i \in 1 .. Width(x, y) |-> Mul(Elem(x, i), Elem(y, i))])
    ELSE Float(Mul(x.x, y.x))

\* x ** 2
square(x) == times(x, x)

\* mutant: a zero divisor raises for arrays as it does for scalars
divide_m(x, y) ==
    IF \E i \in 1 .. (IF IsArray(y) THEN Len(y.data) ELSE 1) : IsZero(Elem(y, i))
    THEN Raise("ZeroDivisionError")
    ELSE IF IsArray(x) \/ IsArray(y)
    THEN Ok(NdArray(1, [i \in 1 .. Width(x, y) |-> Quot(Elem(x, i), Elem(y, i))]))
    ELSE Ok(Float(Quot(x.x, y.x)))

\* x / y: the operands' types choose between Python's and numpy's division
divide(x, y) ==
    IF IsArray(x) \/ IsArray(y)
    THEN Ok(NdArray(1, [i \in 1 .. Width(x, y) |->
                            np_true_divide(Elem(x, i), Elem(y, i)).val]))
    ELSE LET d == py_truediv(x.x, y.x)
         IN  IF d.raised = NoExc THEN Ok(Float(d.val)) ELSE d

\* mutant: the separation is not squared
universal_gravity_m(m1, m2, r, G) ==
    divide(times(G, times(m1, m2)), r)

\* universal_gravity(m1, m2, r, G): return G * (m1 * m2) / r**2
universal_gravity(m1, m2, r, G) ==
    divide(times(G, times(m1, m2)), square(r))

\* universal_gravity(m1, m2, r, G=c.G.value)
universal_gravity_call(a) ==
    universal_gravity(a.m1, a.m2, a.r, Default(a.G, Float(c_G_value)))

\* ------------------------------------------------------------ the calls
\* longest list passed as position or velocity
MaxVec == 3

Masses == {Float(Q(200, 1)), Float(Q(0, 1))}

\* None, the scalar 2., and the lists [], [2.], [2., 6.], [2., 6., 10.], ...
PositionArgs ==
    {None, Float(Q(2, 1))}
        \cup {List([i \in 1 .. n |-> Q(4 * i - 2, 1)]) : n \in 0 .. MaxVec}

\* None, the scalar 20., and the lists [], [20.], [20., 30.], ...
VelocityArgs ==
    {None, Float(Q(20, 1))}
        \cup {List([i \in 1 .. n |-> Q(10 * i + 10, 1)]) : n \in 0 .. MaxVec}

NameArgs == {Omitted, Str("Ceres")}

NewArgs ==
    [op : {"new"}, mass : Masses, position : PositionArgs,
     velocity : VelocityArgs, name : NameArgs]

M1Values == {Fin(Q(0 - 1, 1), 0), Fin(Q(0, 1), 0), Fin(Q(1, 1), 0)}
M2Values == {Fin(Q(1, 1), 0), Fin(Q(3, 1), 0)}
RValues == {Fin(Q(0, 1), 0), Fin(Q(1, 1), 0), Fin(Q(3, 2), 0)}
GArgs == {Omitted, Float(Fin(Q(2, 1), 0))}

\* a Python scalar, or a 1-d array of n elements
Operands(values, n) ==
    {Float(v) : v \in values} \cup {NdArray(1, d) : d \in [1 .. n -> values]}

GravityArgs ==
    UNION {[op : {"universal_gravity"}, m1 : Operands(M1Values, n),
            m2 : Operands(M2Values, n), r : Operands(RValues, n), G : GArgs] :
           n \in 1 .. MaxLen}

Draws == [1 .. 2 -> 0 .. RandSteps - 1]

Init ==
    /\ pc = "call"
    /\ \/ args \in NewArgs
       \/ args \in GravityArgs
    /\ cls = ""
    /\ self = Unbuilt
    /\ raised = NoExc
    /\ ret = None
    /\ sampled = {}

\* the caller's construction of class c ends with outcome out
Construct(c, out) ==
    /\ pc = "call"
    /\ args.op = "new"
    /\ pc' = IF out.raised = NoExc THEN "constructed" ELSE "failed"
    /\ cls' = c
    /\ self' = out.self
    /\ raised' = out.raised
    /\ sampled' = out.sampled
    /\ UNCHANGED <<args, ret>>

NewSolarSystemObject ==
    \E kp \in Draws, kv \in Draws :
        Construct("SolarSystemObject", SolarSystemObject_new(args, kp, kv))

NewStar ==
    \E kp \in Draws, kv \in Draws : Construct("Star", Star_new(args, kp, kv))

NewPlanet ==
    \E kp \in Draws, kv \in Draws : Construct("Planet", Planet_new(args, kp, kv))

NewGasPlanet ==
    \E kp \in Draws, kv \in Draws : Construct("GasPlanet", Planet_new(args, kp, kv))

NewTerrestrialPlanet ==
    \E kp \in Draws, kv \in Draws :
        Construct("TerrestrialPlanet", Planet_new(args, kp, kv))

NewDwarfPlanet ==
    \E kp \in Draws, kv \in Draws :
        Construct("DwarfPlanet", Planet_new(args, kp, kv))

NewAsteroid ==
    \E kp \in Draws, kv \in Draws :
        Construct("Asteroid", Asteroid_new(args, kp, kv))

NewComet ==
    \E kp \in Draws, kv \in Draws : Construct("Comet", Comet_new(args, kp, kv))

\* repr(body) of a constructed body
Repr ==
    /\ pc = "constructed"
    /\ LET out == repr(cls, self)
       IN  /\ raised' = out.raised
           /\ ret' = out.val
    /\ pc' = "summarised"
    /\ UNCHANGED <<args, cls, self, sampled>>

UniversalGravity ==
    /\ pc = "call"
    /\ args.op = "universal_gravity"
    /\ LET out == universal_gravity_call(args)
       IN  /\ raised' = out.raised
           /\ ret' = out.val
    /\ pc' = "returned"
    /\ UNCHANGED <<args, cls, self, sampled>>

Next ==
    \/ NewSolarSystemObject
    \/ NewStar
    \/ NewPlanet
    \/ NewGasPlanet
    \/ NewTerrestrialPlanet
    \/ NewDwarfPlanet
    \/ NewAsteroid
    \/ NewComet
    \/ Repr
    \/ UniversalGravity

Spec == Init /\ [][Next]_vars

\* ------------------------------------------------------------ properties
Built == pc \in {"constructed", "summarised"}
Attempted == args.op = "new" /\ cls # ""
InvalidVectorShape ==
    pc = "failed" /\ raised.type = "TypeError"
        /\ raised.field \in {"position", "velocity"}

\* a scalar, or a list of exactly one component
OneComponent(x) == x.t = "float" \/ (x.t = "list" /\ Len(x.v) = 1)

\* C1: for every class but Star and every mass, a construction whose position
\* or velocity argument is a scalar or has exactly one component fails with
\* TypeError (InvalidVectorShape), whatever the other vector argument is.
C1_BadVectorRaises ==
    (Attempted /\ cls # "Star"
        /\ (OneComponent(args.position) \/ OneComponent(args.velocity)))
    => InvalidVectorShape

C1_Witness ==
    /\ Attempted /\ cls = "GasPlanet"
    /\ args.position = List(<<Q(2, 1), Q(6, 1)>>)
    /\ args.velocity = List(<<Q(20, 1)>>)
    /\ InvalidVectorShape /\ raised.field = "velocity"

\* C2 as stated: when construction fails with InvalidVectorShape, none of
\* mass, position, velocity, name has been assigned on the object.
C2_NothingAssigned == InvalidVectorShape => self = Unbuilt

\* C2 amended: when construction fails with InvalidVectorShape, mass and
\* the array of the offending argument are already assigned (and position,
\* when velocity is the offender); name is not assigned, and velocity is not
\* assigned when position is the offender.
C2_AssignedBeforeRaise ==
    InvalidVectorShape =>
        /\ self.mass = args.mass
        /\ self.position # Unset
        /\ self.name = Unset
        /\ raised.field = "position" =>
              self.velocity = Unset /\ size(self.position) < 2
        /\ raised.field = "velocity" =>
              self.velocity # Unset /\ size(self.velocity) < 2

C2_Witness ==
    /\ InvalidVectorShape /\ raised.field = "velocity"
    /\ args.name = Str("Ceres")
    /\ self.mass = Float(Q(200, 1)) /\ self.velocity # Unset /\ self.name = Unset

Embeds(v) == \E i \in DOMAIN ret.parts : ret.parts[i] = str(v)

\* C3: the summary of a constructed body of any class never raises and is a
\* string that embeds the name, the mass and, except for Star, the position
\* and the velocity.
C3_ReprNeverRaises ==
    pc = "summarised" =>
        /\ raised = NoExc
        /\ ret.t = "str"
        /\ Embeds(self.name)
        /\ \E i \in DOMAIN ret.parts :
              ret.parts[i] \in {str(self.mass)} \cup
                  {str(Ratio(self.mass, u)) :
                      u \in {"M_sun", "M_jup", "M_earth", "M_pluto"}}
        /\ cls # "Star" => Embeds(self.position) /\ Embeds(self.velocity)

Zero2 == <<[n |-> 0, d |-> 1], [n |-> 0, d |-> 1]>>

\* C4: a constructed Star has position and velocity exactly (0, 0) whatever
\* the arguments of the call, and the construction of a Star never samples a
\* random default.
C4_StarAtOrigin ==
    (Attempted /\ cls = "Star") =>
        /\ sampled = {}
        /\ Built => /\ self.position.data = Zero2
                    /\ self.velocity.data = Zero2
        /\ (args.position # None \/ args.velocity # None) => pc = "failed"

C4_Witness ==
    /\ Attempted /\ cls = "Star" /\ pc = "constructed"
    /\ args.name = Str("Ceres") /\ self.name = Str("Ceres")
    /\ self.mass = Float(Q(200, 1))
    /\ self.position.data = Zero2

\* the default names the claim lists
ClaimedDefaultName(c) ==
    CASE c = "SolarSystemObject" -> "Object"
      [] c = "Star" -> "Star"
      [] c \in {"Planet", "GasPlanet", "TerrestrialPlanet", "DwarfPlanet"} -> "Planet"
      [] c = "Asteroid" -> "Asteroid"
      [] c = "Comet" -> "Comet"

\* C5: a body constructed without a name has the default name of its kind:
\* "Object", "Star", "Planet" (also for the planet sub-kinds), "Asteroid",
\* "Comet".
C5_DefaultNames ==
    (Attempted /\ Built /\ args.name = Omitted) =>
        self.name = Str(ClaimedDefaultName(cls))

ScalarCall ==
    /\ pc = "returned"
    /\ ~IsArray(args.m1) /\ ~IsArray(args.m2) /\ ~IsArray(args.r)

ArrayCall ==
    /\ pc = "returned"
    /\ (IsArray(args.m1) \/ IsArray(args.m2) \/ IsArray(args.r))

\* the gravitational constant in use
GUsed == IF args.G = Omitted THEN c_G_value ELSE args.G.x

\* C6: with scalar masses and scalar separation r = 0, universal_gravity
\* raises ZeroDivisionError and returns nothing, for every m1, m2 and G.
C6_ScalarZeroRaises ==
    (ScalarCall /\ args.r.x.q.n = 0) =>
        raised.type = "ZeroDivisionError" /\ ret = None

C6_Witness ==
    /\ ScalarCall /\ args.r.x.q.n = 0 /\ args.G = Omitted
    /\ args.m1.x.q.n = 1 /\ args.m2.x.q.n = 1
    /\ raised.type = "ZeroDivisionError"

\* element i of the force: f * r^2 = G * m1 * m2
Newton(f, i) ==
    /\ f.k = "fin"
    /\ Mul(f, Mul(Elem(args.r, i), Elem(args.r, i)))
         = Mul(Mul(GUsed, Elem(args.m1, i)), Elem(args.m2, i))

\* C7: for every m1, m2, every non-zero r and every G, default or supplied,
\* the force is G * m1 * m2 / r^2 (element by element for arrays); with unit
\* masses and unit separation it is exactly the G in use.
C7_NewtonsLaw ==
    /\ (ScalarCall /\ args.r.x.q.n # 0) =>
          /\ raised = NoExc
          /\ ret.t = "float"
          /\ Newton(ret.x, 1)
          /\ (args.m1.x = Fin(Q(1, 1), 0) /\ args.m2.x = Fin(Q(1, 1), 0)
                 /\ args.r.x = Fin(Q(1, 1), 0)) => ret.x = GUsed
    /\ ArrayCall =>
          /\ raised = NoExc
          /\ \A i \in DOMAIN ret.data :
                Elem(args.r, i).q.n # 0 => Newton(ret.data[i], i)

C7_Witness ==
    /\ ScalarCall /\ args.G = Omitted
    /\ args.m1.x = Fin(Q(1, 1), 0) /\ args.m2.x = Fin(Q(3, 1), 0)
    /\ args.r.x = Fin(Q(3, 2), 0)
    /\ ret = Float(Fin(Q(4, 3), 1))

\* C8 as stated: with array inputs a zero separation never raises, the
\* element at that index is an infinity whatever the masses there, and the
\* other elements are G * m1 * m2 / r^2.
C8_ZeroGivesInfinity ==
    ArrayCall =>
        /\ raised = NoExc
        /\ ret.t = "ndarray"
        /\ \A i \in DOMAIN ret.data :
              IF Elem(args.r, i).q.n = 0
              THEN ret.data[i].k \in {"inf", "-inf"}
              ELSE Newton(ret.data[i], i)

\* C8 amended: with array inputs a zero separation never raises; the element
\* at that index is non-finite: inf when G * m1 * m2 there is positive, -inf
\* when it is negative, nan when it is zero; the other elements are
\* G * m1 * m2 / r^2.
C8_ZeroGivesNonFinite ==
    ArrayCall =>
        /\ raised = NoExc
        /\ ret.t = "ndarray"
        /\ \A i \in DOMAIN ret.data :
              LET p == Mul(Mul(GUsed, Elem(args.m1, i)), Elem(args.m2, i))
              IN  IF Elem(args.r, i).q.n = 0
                  THEN ret.data[i].k =
                          (IF p.q.n > 0 THEN "inf"
                           ELSE IF p.q.n < 0 THEN "-inf" ELSE "nan")
                  ELSE Newton(ret.data[i], i)

C8_Witness ==
    /\ ArrayCall /\ IsArray(args.r) /\ Len(args.r.data) = 2
    /\ args.r.data[1].q.n = 0 /\ args.r.data[2].q.n # 0
    /\ IsArray(args.m1) /\ args.m1.data[1].q.n = 0
    /\ ret.data[1] = NaN /\ ret.data[2].k = "fin"

InRange(a, lo, hi) ==
    /\ a.t = "ndarray"
    /\ Len(a.data) = 2
    /\ \A i \in 1 .. 2 : QLeq(lo, a.data[i]) /\ QLeq(a.data[i], hi)

\* C9: a construction that leaves out position and/or velocity does not
\* raise InvalidVectorShape for the omitted argument; both axes of a
\* defaulted position lie in [0.3, 50.0] and both axes of a defaulted
\* velocity in [20.0, 50.0], for every draw of the random source.
C9_DefaultsInRange ==
    Attempted =>
        /\ args.position = None =>
              /\ raised.field # "position"
              /\ cls # "Star" => InRange(self.position, Q(3, 10), Q(50, 1))
        /\ args.velocity = None =>
              /\ raised.field # "velocity"
              /\ (cls # "Star" /\ Built) =>
                    InRange(self.velocity, Q(20, 1), Q(50, 1))
        /\ (args.position = None /\ args.velocity = None) => Built

C9_Witness ==
    /\ Attempted /\ cls = "Comet" /\ pc = "constructed"
    /\ args.position = None /\ args.velocity = None
    /\ sampled = {"position", "velocity"}
    /\ self.position.data[1] = Q(3, 10)
    /\ QLess(Q(3, 10), self.position.data[2])
    /\ QLess(Q(20, 1), self.velocity.data[1])

\* C10: every constructed body holds exactly 2 components of position and
\* exactly 2 of velocity, also when a vector of 3 or more was supplied.
C10_TwoComponents ==
    (Attempted /\ Built) => size(self.position) = 2 /\ size(self.velocity) = 2

=============================================================================
